---------------------------- MODULE Spec2Model ----------------------------
(***************************************************************************)
(* A model of the sigma renderer (src/unnamed/part_000, class Sigma), its  *)
(* camera (src/src/core/camera.ts) and its settings validation             *)
(* (src/src/settings.ts).                                                  *)
(*                                                                         *)
(* Conventions.                                                            *)
(*  - A nullable number (number | null) is a sequence: <<>> is null and    *)
(*    <<v>> is the number v, so `typeof m === "number"` is m # <<>>.       *)
(*  - A partial object (Partial<CameraState>, node attributes) is a        *)
(*    function whose DOMAIN is the set of fields that hold a number (for   *)
(*    the camera) or that the object owns (for attributes).                *)
(*  - Camera coordinates x and y, and the sizes of nodes and edges, are    *)
(*    counted in halves: 1 stands for 0.5.                                 *)
(*  - NaN, a value of type number that equals nothing, is -1.               *)
(*  - An edge is followed by its key only.                                 *)
(*  - A frame token is a positive integer; 0 stands for null (both are     *)
(*    falsy in `if (!this.renderFrame)`).                                  *)
(***************************************************************************)
EXTENDS Integers, Sequences, FiniteSets, TLC

VARIABLES
  camera,    \* the Camera object: x, y, angle, ratio, minRatio, maxRatio, enabled, previousState
  sigma,     \* the Sigma object's fields (settings, caches, flags, frame token)
  graph,     \* the graph collaborator: node order, node attributes, edges
  detached,  \* the graph object that is not the renderer's graph: the same fields
  frames,    \* the platform: requested frames that have neither fired nor been cancelled (FIFO)
  copied,    \* the camera that copy() returned, or null before any copy
  last,      \* observation of the last operation: what it called and emitted
  hist       \* history: what the sequence of operations so far should have produced

vars == <<camera, sigma, graph, detached, frames, copied, last, hist>>

---------------------------------------------------------------------------
(* Bounds of the model *)

\* Ratio arguments range over 0..MaxRatio and NaN; the ratio bounds that the
\* settings hold are 1 and 2, so that arguments fall below, between and above
MaxRatio == 2

\* The number NaN, which `typeof v === "number"` accepts
NaN == -1

\* Values given to x and y (in halves), to angle and to ratio
CoordVals == {1, 2}
AngleVals == {0, 1}
RatioVals == 0..MaxRatio \cup {NaN}
BoundVals == {1, 2}

Null == <<>>
Num(v) == <<v>>
IsNumber(m) == m # Null
Val(m) == m[1]
NullableBounds == {Null} \cup {Num(v) : v \in BoundVals}

\* Math.max and Math.min: NaN if an argument is NaN
Max(a, b) == IF a = NaN \/ b = NaN THEN NaN ELSE IF a >= b THEN a ELSE b
Min(a, b) == IF a = NaN \/ b = NaN THEN NaN ELSE IF a <= b THEN a ELSE b

\* a === b on numbers: NaN equals nothing
StrictEquals(a, b) == a # NaN /\ b # NaN /\ a = b

---------------------------------------------------------------------------
(* Camera: src/src/core/camera.ts *)

CameraFields == {"x", "y", "angle", "ratio"}

\* x = 0.5, y = 0.5, angle = 0, ratio = 1
DefaultState == [x |-> 1, y |-> 1, angle |-> 0, ratio |-> 1]

FieldVals(f) ==
  IF f = "ratio" THEN RatioVals ELSE IF f = "angle" THEN AngleVals ELSE CoordVals

\* The Partial<CameraState> values given to setState: a field is in the domain
\* iff it holds a number, and at most two fields are given at once
PartialStates ==
  UNION { { s \in [D -> CoordVals \cup AngleVals \cup RatioVals] :
              \A f \in D : s[f] \in FieldVals(f) }
          : D \in {E \in SUBSET CameraFields : \E f, g \in CameraFields : E \subseteq {f, g}} }

\* new Camera(): previousState = this.getState()
NewCamera ==
  [x |-> DefaultState.x, y |-> DefaultState.y, angle |-> DefaultState.angle,
   ratio |-> DefaultState.ratio, minRatio |-> Null, maxRatio |-> Null,
   enabled |-> TRUE, previousState |-> Num(DefaultState)]

GetState(c) == [x |-> c.x, y |-> c.y, angle |-> c.angle, ratio |-> c.ratio]

HasState(c, state) ==
  /\ StrictEquals(c.x, state.x)
  /\ StrictEquals(c.y, state.y)
  /\ StrictEquals(c.ratio, state.ratio)
  /\ StrictEquals(c.angle, state.angle)

GetPreviousState(c) ==
  IF c.previousState = Null THEN Null ELSE Num(Val(c.previousState))

\* getBoundedRatio, line 139
BoundAbove(c, r) == IF IsNumber(c.maxRatio) THEN Min(r, Val(c.maxRatio)) ELSE r

\* getBoundedRatio with its two lines in the other order
GetBoundedRatioMaxFirst(c, ratio) ==
  IF IsNumber(c.minRatio)
  THEN Max(BoundAbove(c, ratio), Val(c.minRatio))
  ELSE BoundAbove(c, ratio)

GetBoundedRatio(c, ratio) ==
  BoundAbove(c, IF IsNumber(c.minRatio) THEN Max(ratio, Val(c.minRatio)) ELSE ratio)

\* validateState without its line for y
ValidateStateDropY(c, state) ==
  [f \in DOMAIN state \ {"y"} |->
     IF f = "ratio" THEN GetBoundedRatio(c, state[f]) ELSE state[f]]

ValidateState(c, state) ==
  [f \in DOMAIN state |->
     IF f = "ratio" THEN GetBoundedRatio(c, state[f]) ELSE state[f]]

\* The fields of c after the four conditional assignments of setState
ApplyState(c, validState) ==
  [c EXCEPT
     !.x = IF "x" \in DOMAIN validState THEN validState["x"] ELSE @,
     !.y = IF "y" \in DOMAIN validState THEN validState["y"] ELSE @,
     !.angle = IF "angle" \in DOMAIN validState THEN validState["angle"] ELSE @,
     !.ratio = IF "ratio" \in DOMAIN validState THEN validState["ratio"] ELSE @]

\* setState, line 180: this.previousState = this.getState()
RecordPrevious(c) == [c EXCEPT !.previousState = Num(GetState(c))]

\* setState, lines 182-186
ApplyValid(c, state) == ApplyState(c, ValidateState(c, state))

\* setState, lines 189-192: emit "updated" unless the state is the previous one
EmitIfChanged(c) ==
  [camera |-> c, emitted |-> IF ~HasState(c, Val(c.previousState)) THEN 1 ELSE 0]

\* setState without its first line
SetStateWhenDisabled(c, state) ==
  EmitIfChanged(ApplyValid(RecordPrevious(c), state))

\* setState: the camera after the call and the number of "updated" events emitted
SetState(c, state) ==
  IF ~c.enabled THEN [camera |-> c, emitted |-> 0]
  ELSE EmitIfChanged(ApplyValid(RecordPrevious(c), state))

\* The updaters given to updateState: functions of the current state
StateUpdaters == {"same", "zoomOut", "swapXY", "empty"}

ApplyUpdater(u, state) ==
  CASE u = "same" -> state
    [] u = "zoomOut" -> [ratio |-> IF state.ratio = NaN THEN NaN ELSE Min(state.ratio + 1, MaxRatio)]
    [] u = "swapXY" -> [x |-> state.y, y |-> state.x]
    [] OTHER -> [f \in {} |-> 0]

UpdateState(c, u) == SetState(c, ApplyUpdater(u, GetState(c)))

\* Camera.from(state): a new camera given the state
From(state) == SetState(NewCamera, state).camera

\* copy() that copies the state of an enabled camera only
CopyWhenEnabled(c) == IF c.enabled THEN From(GetState(c)) ELSE NewCamera

\* copy()
Copy(c) == From(GetState(c))

Enable(c) == [c EXCEPT !.enabled = TRUE]

Disable(c) == [c EXCEPT !.enabled = FALSE]

---------------------------------------------------------------------------
(* Settings: src/src/settings.ts *)

\* DEFAULT_SETTINGS, the keys the model reads
DefaultSettings ==
  [minCameraRatio |-> Null, maxCameraRatio |-> Null, stagePadding |-> 30,
   nodeReducer |-> Null, edgeReducer |-> Null]

CameraRatioKeys == {"minCameraRatio", "maxCameraRatio"}

\* validateSettings returns normally (TRUE) or throws (FALSE)
ValidateSettings(settings) ==
  ~( IsNumber(settings.minCameraRatio)
     /\ IsNumber(settings.maxCameraRatio)
     /\ Val(settings.maxCameraRatio) < Val(settings.minCameraRatio) )

\* The updaters given to updateSetting: functions of the current value
SettingUpdaters == {"same", "increment", "toNull", "toOne"}

ApplySettingUpdater(u, value) ==
  CASE u = "same" -> value
    [] u = "increment" ->
         IF IsNumber(value) /\ Val(value) + 1 \in BoundVals
         THEN Num(Val(value) + 1) ELSE value
    [] u = "toNull" -> Null
    [] OTHER -> Num(1)

---------------------------------------------------------------------------
(* The graph collaborator and the display data *)

NodeKeys == {"a", "b"}
EdgeKeys == {"e"}

\* Raw node attributes: a plain positioned node, a highlighted node with a
\* forced label, and a node without an x
PlainAttrs == [x |-> 0, y |-> 0]
FlaggedAttrs == [x |-> 1, y |-> 0, highlighted |-> TRUE, forceLabel |-> TRUE]
NoXAttrs == [y |-> 0]
NodeAttrChoices == {PlainAttrs, FlaggedAttrs, NoXAttrs}

\* A string where a number is expected, such as x: "abc"
TextValue == -2

\* A node whose x is a string, and a node of a type that has no program
TextXAttrs == [x |-> TextValue, y |-> 0]
SquareAttrs == [x |-> 0, y |-> 0, type |-> "square"]
ProcessAttrChoices == {PlainAttrs, FlaggedAttrs, NoXAttrs, TextXAttrs, SquareAttrs}

EdgeAttrs == [size |-> 2]

RECURSIVE SeqToSet(_)
SeqToSet(s) == IF s = <<>> THEN {} ELSE {Head(s)} \cup SeqToSet(Tail(s))

RECURSIVE RemoveFromSeq(_, _)
RemoveFromSeq(s, k) ==
  IF s = <<>> THEN <<>>
  ELSE IF Head(s) = k THEN RemoveFromSeq(Tail(s), k)
  ELSE <<Head(s)>> \o RemoveFromSeq(Tail(s), k)

EmptyGraph == [nodes |-> <<>>, attrs |-> [k \in {} |-> PlainAttrs], edges |-> {}]

HasOwn(data, f) == f \in DOMAIN data

\* obj with obj[f] = v, whether or not obj owned f
SetField(obj, f, v) ==
  [g \in DOMAIN obj \cup {f} |-> IF g = f THEN v ELSE obj[g]]

\* obj without its entry for k: `delete obj[k]`
DeleteKey(obj, k) == [g \in DOMAIN obj \ {k} |-> obj[g]]

---------------------------------------------------------------------------
(* Sigma: src/unnamed/part_000 *)

NoFrame == 0

\* The node programs registered by resolveSettings: DEFAULT_NODE_PROGRAM_CLASSES
NodePrograms == {"circle"}

\* applyNodeDefaults throws: the data own no x or no y
NodeDefaultsThrow(data) == ~HasOwn(data, "x") \/ ~HasOwn(data, "y")

\* `if (!data.hasOwnProperty(f)) data[f] = v`
DefaultIfAbsent(data, f, v) == IF ~HasOwn(data, f) THEN SetField(data, f, v) ELSE data

\* `if (!data[f]) data[f] = v`, falsy being absent or the given falsy value
DefaultIfFalsy(data, f, falsy, v) ==
  IF ~HasOwn(data, f) \/ data[f] = falsy THEN SetField(data, f, v) ELSE data

\* applyNodeDefaults, lines 57-61: a label is null or a string; "" is kept
DefaultLabel(data) == IF ~HasOwn(data, "label") THEN SetField(data, "label", Null) ELSE data

\* Sizes are counted in halves: a node's default size 2 is 4, an edge's 0.5 is 1
DefaultNodeSize == 4
DefaultEdgeSize == 1
DefaultZIndex == 0

\* applyNodeDefaults, on data that own x and y
ApplyNodeDefaults(data) ==
  DefaultIfFalsy(
    DefaultIfFalsy(
      DefaultIfAbsent(
        DefaultIfAbsent(
          DefaultIfAbsent(
            DefaultIfFalsy(
              DefaultLabel(DefaultIfFalsy(data, "color", "", "#999")),
              "size", 0, DefaultNodeSize),
            "hidden", FALSE),
          "highlighted", FALSE),
        "forceLabel", FALSE),
      "type", "", "circle"),
    "zIndex", 0, DefaultZIndex)

\* applyEdgeDefaults
ApplyEdgeDefaults(data) ==
  DefaultIfFalsy(
    DefaultIfFalsy(
      DefaultIfAbsent(
        DefaultIfAbsent(
          DefaultIfFalsy(
            DefaultIfFalsy(DefaultIfFalsy(data, "color", "", "#ccc"), "label", "", ""),
            "size", 0, DefaultEdgeSize),
          "hidden", FALSE),
        "forceLabel", FALSE),
      "type", "", "line"),
    "zIndex", 0, DefaultZIndex)

\* The width or the height of an extent [Infinity, -Infinity]
MinusInfinity == -3

\* The values of field f that graphExtent compares: the numbers
NumericValues(g, f) ==
  { g.attrs[k][f] : k \in { n \in SeqToSet(g.nodes) :
                             HasOwn(g.attrs[n], f) /\ g.attrs[n][f] # TextValue } }

SetMax(S) == CHOOSE m \in S : \A v \in S : v <= m
SetMin(S) == CHOOSE m \in S : \A v \in S : m <= v

\* graphExtent along f, as getGraphDimensions reads it (`max - min || 1`):
\* [0, 1] for a graph without nodes
Span(g, f) ==
  IF g.nodes = <<>> THEN 1
  ELSE IF NumericValues(g, f) = {} THEN MinusInfinity
  ELSE IF SetMax(NumericValues(g, f)) = SetMin(NumericValues(g, f)) THEN 1
  ELSE SetMax(NumericValues(g, f)) - SetMin(NumericValues(g, f))

\* graphExtent(graph), kept as the dimensions that getGraphDimensions reads
\* from nodeExtent
GraphExtent(g) == [width |-> Span(g, "x"), height |-> Span(g, "y")]

\* getGraphDimensions: `this.customBBox || this.nodeExtent`, a box being kept
\* as its dimensions
GetGraphDimensions(s) ==
  IF IsNumber(s.customBBox) THEN Val(s.customBBox) ELSE s.nodeExtent

\* getDimensions: the container keeps its size
GetDimensions == [width |-> 2, height |-> 2]

\* `this.getSetting("stagePadding") || 0`
GetStagePadding(s) == s.settings.stagePadding

\* identity()
Identity == [identity |-> TRUE]

\* matrixFromCamera: a matrix is known by what it was derived from
MatrixFromCamera(state, viewportDimensions, graphDimensions, padding, inverse) ==
  [identity |-> FALSE, cameraState |-> state,
   viewportDimensions |-> viewportDimensions,
   graphDimensions |-> graphDimensions, padding |-> padding, inverse |-> inverse]

\* The overrides given to a conversion: any subset of the four values, each
\* other than the renderer's own, the padding being 0 or 10
OverrideFields == {"cameraState", "viewportDimensions", "graphDimensions", "padding"}

OverrideValue(f, padding) ==
  CASE f = "cameraState" -> [x |-> 2, y |-> 2, angle |-> 1, ratio |-> 2]
    [] f = "viewportDimensions" -> [width |-> 4, height |-> 4]
    [] f = "graphDimensions" -> [width |-> 3, height |-> 3]
    [] f = "padding" -> padding

Overrides ==
  { [f \in S |-> OverrideValue(f, padding)] :
      S \in SUBSET OverrideFields, padding \in {0, 10} }

\* `override.f || current`: a padding of 0 is falsy
Overridden(override, f, current) ==
  IF HasOwn(override, f) /\ ~(f = "padding" /\ override[f] = 0)
  THEN override[f] ELSE current

\* The matrix both conversions derive when they recompute it
RecomputedMatrix(w, override, inverse) ==
  MatrixFromCamera(
    Overridden(override, "cameraState", GetState(w.camera)),
    Overridden(override, "viewportDimensions", GetDimensions),
    Overridden(override, "graphDimensions", GetGraphDimensions(w.sigma)),
    Overridden(override, "padding", GetStagePadding(w.sigma)),
    inverse)

\* framedGraphToViewport, lines 1165-1178: the matrix it multiplies by
ForwardMatrix(w, override) ==
  IF \/ HasOwn(override, "cameraState")
     \/ HasOwn(override, "viewportDimensions")
     \/ HasOwn(override, "graphDimensions")
  THEN RecomputedMatrix(w, override, FALSE)
  ELSE w.sigma.matrix

\* viewportToFramedGraph, lines 1199-1213: the matrix it multiplies by
InverseMatrix(w, override) ==
  IF \/ HasOwn(override, "cameraState")
     \/ HasOwn(override, "viewportDimensions")
     \/ ~HasOwn(override, "graphDimensions")
  THEN RecomputedMatrix(w, override, TRUE)
  ELSE w.sigma.invMatrix

\* The observation an operation starts with: the operation, the key it is
\* about, the "updated" events emitted, the frames requested, the calls of
\* process and render in order, the dirty flags as a frame callback found
\* them, whether render was entered with a dirty flag, whether it threw,
\* which error, for a coordinate conversion the override it was given and
\* the matrix it used, for a query what it returned, the events emitted and
\* the calls made on the node programs in their order, and the count kept per
\* node type by process; and, kept from one operation to the next, the
\* severity of the reprocess the graph notifications delivered so far are
\* still owed ("none", "soft" or "full"); whether this operation has completed
\* the reprocess that was owed; and a bit, kept from one operation to the
\* next, that turns when a notification is delivered after the operation
\* completed the reprocess owed to the notifications before it
NewLog(op, arg) ==
  [op |-> op, arg |-> arg, emitted |-> 0, requested |-> 0, calls |-> <<>>,
   pending |-> "", dirtyAtRender |-> FALSE, threw |-> FALSE, error |-> "",
   override |-> Null, matrix |-> Null, result |-> Null,
   effects |-> <<>>, nodesPerPrograms |-> <<>>,
   owed |-> "none", settled |-> FALSE, turn |-> 0]

\* throw new Error(...)
Throw(w, error) == [w EXCEPT !.log.threw = TRUE, !.log.error = error]

World == [camera |-> camera, sigma |-> sigma, graph |-> graph,
          detached |-> detached, frames |-> frames, copied |-> copied,
          log |-> last]

Begin(op) ==
  [World EXCEPT !.log = [NewLog(op, Null) EXCEPT !.owed = last.owed,
                                                 !.turn = last.turn]]

BeginOn(op, key) ==
  [World EXCEPT !.log = [NewLog(op, Num(key)) EXCEPT !.owed = last.owed,
                                                     !.turn = last.turn]]

\* requestFrame: the smallest token that names no requested frame and differs
\* from the stored one
FreshFrame(w) ==
  CHOOSE i \in 1..(Len(w.frames) + 2) :
    /\ i # w.sigma.renderFrame
    /\ i \notin SeqToSet(w.frames)
    /\ \A j \in 1..(i - 1) : j = w.sigma.renderFrame \/ j \in SeqToSet(w.frames)

\* cancelFrame(id)
CancelFrame(w, id) == [w EXCEPT !.frames = RemoveFromSeq(@, id)]

\* _scheduleRefresh, lines 703-706
RequestFrame(w, id) ==
  [w EXCEPT !.sigma.renderFrame = id,
            !.frames = Append(@, id),
            !.log.requested = @ + 1]

\* _scheduleRefresh
ScheduleRefreshInternal(w) ==
  IF w.sigma.renderFrame = NoFrame THEN RequestFrame(w, FreshFrame(w)) ELSE w

\* The "updated" events of r, a result of setState: activeListeners.camera
\* runs for them while it is registered on the camera
CameraUpdated(w, r) ==
  IF r.emitted > 0 /\ w.sigma.cameraHandler
  THEN ScheduleRefreshInternal([w EXCEPT !.camera = r.camera,
                                         !.log.emitted = @ + r.emitted])
  ELSE IF r.emitted > 0
  THEN [w EXCEPT !.camera = r.camera, !.log.emitted = @ + r.emitted]
  ELSE [w EXCEPT !.camera = r.camera]

\* handleSettingsUpdate, lines 664-665
BackportRatios(c, settings) ==
  [c EXCEPT !.minRatio = settings.minCameraRatio,
            !.maxRatio = settings.maxCameraRatio]

\* handleSettingsUpdate, line 666
Reclamp(c) == SetState(c, ValidateState(c, GetState(c)))

\* handleSettingsUpdate
HandleSettingsUpdate(w) ==
  CameraUpdated(w, Reclamp(BackportRatios(w.camera, w.sigma.settings)))

\* normalizationFunction.applyTo(data), the function being built from
\* `this.customBBox || this.nodeExtent` (lines 549-551): the normalized
\* position is known by the box it was normalized against, null standing for
\* the node extent
ApplyTo(s, data) == SetField(data, "normalizedBy", s.customBBox)

\* One entry of the observed effects: an event emitted (call "emit", the
\* event as its type), a frame cancelled, or a call on the node program of a
\* type, with the number it was given
Effect(w, call, type, index) ==
  [w EXCEPT !.log.effects = Append(@, [call |-> call, type |-> type, index |-> index])]

\* program.allocate(n) on the program of a type: the program's arrays hold n
\* entities from now on
Allocate(w, type, n) ==
  [Effect(w, "allocate", type, n) EXCEPT !.sigma.allocated = SetField(@, type, n)]

\* `nodesPerPrograms[type] || 0`
CountOf(nodesPerPrograms, type) ==
  IF HasOwn(nodesPerPrograms, type) THEN nodesPerPrograms[type] ELSE 0

\* The reducers a user may configure: one returns a new object holding only
\* the position of the entity, the other sets a flag on the copy it was given
\* and returns that copy
Reducers == {"positionOnly", "highlight"}

\* A reducer that returned its result laid over the attributes it was given
ReduceMerged(reducer, key, attr) ==
  IF reducer = "positionOnly" THEN attr
  ELSE SetField(attr, "highlighted", TRUE)

\* settings.nodeReducer(key, attr), settings.edgeReducer(key, attr)
Reduce(reducer, key, attr) ==
  IF reducer = "positionOnly"
  THEN [f \in DOMAIN attr \cap {"x", "y"} |-> attr[f]]
  ELSE SetField(attr, "highlighted", TRUE)

\* process, lines 567 and 637: `if (reducer) attr = reducer(key, attr)`
ApplyReducer(reducer, key, attr) ==
  IF reducer = Null THEN attr ELSE Reduce(Val(reducer), key, attr)

\* process, lines 572-579: the display data of one node are counted under
\* their type and cached
CacheNode(w, node, data) ==
  [w EXCEPT !.log.nodesPerPrograms =
               SetField(@, data.type, CountOf(@, data.type) + 1),
            !.sigma.nodeDataCache = SetField(@, node, ApplyTo(w.sigma, data)),
            !.sigma.nodesWithForcedLabels =
               IF data.forceLabel THEN Append(@, node) ELSE @]

\* process, lines 565-579, for one node whose attributes went through the
\* reducer
ResolveNode(w, node, attr) ==
  IF NodeDefaultsThrow(attr) THEN Throw(w, "position")
  ELSE CacheNode(w, node, ApplyNodeDefaults(attr))

\* process, first loop: the display data are resolved and cached node by
\* node, until applyNodeDefaults throws
RECURSIVE ResolveNodes(_, _)
ResolveNodes(w, nodes) ==
  IF nodes = <<>> \/ w.log.threw THEN w
  ELSE ResolveNodes(
         ResolveNode(w, Head(nodes),
                     ApplyReducer(w.sigma.settings.nodeReducer, Head(nodes),
                                  w.graph.attrs[Head(nodes)])),
         Tail(nodes))

\* process, lines 587-598, kept from resetting the count
RECURSIVE AllocateKeepCount(_, _, _)
AllocateKeepCount(w, types, keepArrays) ==
  IF types = <<>> THEN w
  ELSE AllocateKeepCount(
         IF keepArrays THEN w
         ELSE Allocate(w, Head(types),
                       CountOf(w.log.nodesPerPrograms, Head(types))),
         Tail(types), keepArrays)

\* process, lines 587-598: each registered program allocates for the nodes
\* counted under its type unless the arrays are kept, and the count restarts
RECURSIVE AllocatePrograms(_, _, _)
AllocatePrograms(w, types, keepArrays) ==
  IF types = <<>> THEN w
  ELSE AllocatePrograms(
         [(IF keepArrays THEN w
           ELSE Allocate(w, Head(types),
                         CountOf(w.log.nodesPerPrograms, Head(types))))
            EXCEPT !.log.nodesPerPrograms = SetField(@, Head(types), 0)],
         Tail(types), keepArrays)

\* this.nodePrograms[type] is a program
HasProgram(s, type) == type \in SeqToSet(s.nodePrograms)

\* process, lines 618-621: a node is processed by the program of its type
ProcessNode(w, node, data) ==
  [Effect(w, "process", data.type, w.log.nodesPerPrograms[data.type]) EXCEPT
     !.log.nodesPerPrograms[data.type] = @ + 1,
     !.sigma.highlightedNodes =
        IF data.highlighted /\ ~data.hidden THEN @ \cup {node} ELSE @]

\* process, second loop, were a node of an unknown type passed over
RECURSIVE ProcessNodesSkipUnknown(_, _)
ProcessNodesSkipUnknown(w, nodes) ==
  IF nodes = <<>> THEN w
  ELSE IF ~HasProgram(w.sigma, w.sigma.nodeDataCache[Head(nodes)].type)
  THEN ProcessNodesSkipUnknown(w, Tail(nodes))
  ELSE ProcessNodesSkipUnknown(
         ProcessNode(w, Head(nodes), w.sigma.nodeDataCache[Head(nodes)]),
         Tail(nodes))

\* process, second loop: each node goes to the program of its type, or the
\* lookup throws
RECURSIVE ProcessNodes(_, _)
ProcessNodes(w, nodes) ==
  IF nodes = <<>> THEN w
  ELSE IF ~HasProgram(w.sigma, w.sigma.nodeDataCache[Head(nodes)].type)
  THEN Throw(w, "program")
  ELSE ProcessNodes(
         ProcessNode(w, Head(nodes), w.sigma.nodeDataCache[Head(nodes)]),
         Tail(nodes))

\* process, third loop: the edges
ResolveEdges(w) ==
  [w EXCEPT !.sigma.edgeDataCache =
     [e \in DOMAIN @ \cup w.graph.edges |->
        IF e \in w.graph.edges
        THEN ApplyEdgeDefaults(ApplyReducer(w.sigma.settings.edgeReducer, e, EdgeAttrs))
        ELSE @[e]]]

\* process, lines 528-536
ResetForProcess(w, keepArrays) ==
  [w EXCEPT
     !.log.calls = Append(@, IF keepArrays THEN "softProcess" ELSE "process"),
     !.log.nodesPerPrograms = <<>>,
     !.sigma.highlightedNodes = {},
     !.sigma.nodeExtent = GraphExtent(w.graph),
     !.sigma.nodesWithForcedLabels = <<>>]

\* A reprocess has completed: a full one settles what the notifications were
\* owed, a soft one settles it unless a full one was owed
Settle(w, keepArrays) ==
  IF w.log.owed = "none" \/ (keepArrays /\ w.log.owed = "full") THEN w
  ELSE [w EXCEPT !.log.owed = "none", !.log.settled = TRUE]

ProcessEdgesUnlessThrown(w) == IF w.log.threw THEN w ELSE ResolveEdges(w)

SettleUnlessThrown(w, keepArrays) == IF w.log.threw THEN w ELSE Settle(w, keepArrays)

ProcessNodesUnlessThrown(w, keepArrays) ==
  IF w.log.threw THEN w
  ELSE ProcessEdgesUnlessThrown(
         ProcessNodes(AllocatePrograms(w, w.sigma.nodePrograms, keepArrays),
                      w.graph.nodes))

ResolveAll(w, keepArrays) ==
  ProcessNodesUnlessThrown(ResolveNodes(w, w.graph.nodes), keepArrays)

\* process(keepArrays)
Process(w, keepArrays) ==
  SettleUnlessThrown(ResolveAll(ResetForProcess(w, keepArrays), keepArrays), keepArrays)

\* activeListeners.graphUpdate
GraphUpdate(w) ==
  ScheduleRefreshInternal([w EXCEPT !.sigma.needToProcess = TRUE])

\* activeListeners.softGraphUpdate
SoftGraphUpdate(w) ==
  ScheduleRefreshInternal([w EXCEPT !.sigma.needToSoftProcess = TRUE])

\* activeListeners.dropNodeGraphUpdate
DropNodeGraphUpdate(w, key) ==
  GraphUpdate([w EXCEPT
    !.sigma.nodeDataCache = DeleteKey(@, key),
    !.sigma.hoveredNode = IF @ = Num(key) THEN Null ELSE @])

\* activeListeners.dropEdgeGraphUpdate
DropEdgeGraphUpdate(w, key) ==
  GraphUpdate([w EXCEPT
    !.sigma.edgeDataCache = DeleteKey(@, key),
    !.sigma.hoveredEdge = IF @ = Num(key) THEN Null ELSE @])

\* clearEdgesGraphUpdate without its second line
ClearEdgesKeepHovered(w) ==
  GraphUpdate([w EXCEPT !.sigma.edgeDataCache = [e \in {} |-> EdgeAttrs]])

\* activeListeners.clearEdgesGraphUpdate
ClearEdgesGraphUpdate(w) ==
  GraphUpdate([w EXCEPT
    !.sigma.edgeDataCache = [e \in {} |-> EdgeAttrs],
    !.sigma.hoveredEdge = Null])

\* activeListeners.clearGraphUpdate
ClearGraphUpdate(w) ==
  ClearEdgesGraphUpdate([w EXCEPT
    !.sigma.nodeDataCache = [k \in {} |-> PlainAttrs],
    !.sigma.hoveredNode = Null])

\* The reprocess a notification reports: a soft one for the attributes of one
\* entity, a full one for every other event
Severity(event) ==
  IF event \in {"nodeAttributesUpdated", "edgeAttributesUpdated"} THEN "soft" ELSE "full"

\* A notification of the given severity has been delivered
Owe(w, severity) ==
  [w EXCEPT !.log.owed = IF severity = "full" \/ @ = "full" THEN "full" ELSE "soft",
            !.log.turn = IF w.log.settled THEN 1 - @ ELSE @,
            !.log.settled = FALSE]

\* bindGraphHandlers, lines 460-469: the handler registered for each event
Handle(w, event, key) ==
  CASE event \in {"nodeAdded", "eachNodeAttributesUpdated", "edgeAdded",
                  "eachEdgeAttributesUpdated"} -> GraphUpdate(Owe(w, Severity(event)))
    [] event \in {"nodeAttributesUpdated", "edgeAttributesUpdated"} ->
         SoftGraphUpdate(Owe(w, Severity(event)))
    [] event = "nodeDropped" -> DropNodeGraphUpdate(Owe(w, Severity(event)), key)
    [] event = "edgeDropped" -> DropEdgeGraphUpdate(Owe(w, Severity(event)), key)
    [] event = "edgesCleared" -> ClearEdgesGraphUpdate(Owe(w, Severity(event)))
    [] event = "cleared" -> ClearGraphUpdate(Owe(w, Severity(event)))

\* The renderer's graph emits an event: the handlers run if they are registered
Notify(w, event, key) ==
  IF w.sigma.graphHandlers THEN Handle(w, event, key) ELSE w

\* The other graph object emits an event
NotifyDetached(w, event, key) ==
  IF w.sigma.detachedHandlers THEN Handle(w, event, key) ELSE w

\* The node a listener adds to the graph
ListenerNode == "b"

\* A listener of beforeRender or afterRender that calls
\* graph.addNode(ListenerNode, PlainAttrs) unless the graph has the node
ListenerAddNode(w) ==
  IF ListenerNode \in SeqToSet(w.graph.nodes) THEN w
  ELSE Notify([w EXCEPT !.graph.nodes = Append(@, ListenerNode),
                        !.graph.attrs = SetField(@, ListenerNode, PlainAttrs)],
              "nodeAdded", ListenerNode)

\* What a beforeRender or afterRender listener does: nothing, or a call of
\* scheduleRefresh
ListenerOps == {"none", "scheduleRefresh"}

\* scheduleRefresh
ScheduleRefresh(w) ==
  ScheduleRefreshInternal([w EXCEPT !.sigma.needToProcess = TRUE])

\* emit("beforeRender") and emit("afterRender"): after removeAllListeners no
\* listener is left
Emit(w, listener) ==
  IF listener = "scheduleRefresh" /\ ~w.sigma.released THEN ScheduleRefresh(w)
  ELSE IF listener = "addNode" /\ ~w.sigma.released THEN ListenerAddNode(w)
  ELSE w

\* render, lines 726-731: a scheduled render is cancelled
CancelScheduled(w) ==
  IF w.sigma.renderFrame # NoFrame
  THEN [Effect(CancelFrame(w, w.sigma.renderFrame), "cancelFrame", "", 0) EXCEPT
          !.sigma.renderFrame = NoFrame,
          !.sigma.needToProcess = FALSE,
          !.sigma.needToSoftProcess = FALSE]
  ELSE w

\* render, lines 741-761: the matrices are recomputed unless the graph has
\* no node
ComputeMatrices(w) ==
  IF w.graph.nodes = <<>> THEN w
  ELSE [w EXCEPT
          !.sigma.matrix =
             MatrixFromCamera(GetState(w.camera), GetDimensions,
                              GetGraphDimensions(w.sigma),
                              GetStagePadding(w.sigma), FALSE),
          !.sigma.invMatrix =
             MatrixFromCamera(GetState(w.camera), GetDimensions,
                              GetGraphDimensions(w.sigma),
                              GetStagePadding(w.sigma), TRUE)]

\* render is entered: what the observation keeps of it
EnterRender(w) ==
  [w EXCEPT !.log.calls = Append(@, "render"),
            !.log.dirtyAtRender = w.sigma.needToProcess \/ w.sigma.needToSoftProcess]

\* render, lines 770-784: one program is bound, given its data and rendered
DrawProgram(w, type) ==
  Effect(Effect(Effect(w, "bind", type, 0), "bufferData", type, 0), "render", type, 0)

RECURSIVE DrawPrograms(_, _)
DrawPrograms(w, types) ==
  IF types = <<>> THEN w
  ELSE DrawPrograms(DrawProgram(w, Head(types)), Tail(types))

\* render, were the programs drawn whatever the order of the graph
DrawNodesOfAnyGraph(w) == DrawPrograms(w, w.sigma.nodePrograms)

\* render, lines 739 and 770-784: unless the graph has no node, the programs
\* are drawn in the order of `for (const type in this.nodePrograms)`
DrawNodes(w) ==
  IF w.graph.nodes = <<>> THEN w ELSE DrawPrograms(w, w.sigma.nodePrograms)

\* render, lines 721-723: the event, then what its listener does
EmitBeforeRender(w, before) == Emit(Effect(w, "emit", "beforeRender", 0), before)

\* exitRender, lines 718-719
ExitRender(w, after) == Emit(Effect(w, "emit", "afterRender", 0), after)

\* render, with what the listeners of beforeRender and afterRender do
Render(w, before, after) ==
  ExitRender(
    DrawNodes(ComputeMatrices(CancelScheduled(EmitBeforeRender(EnterRender(w), before)))),
    after)

ClearFlags(w) ==
  [w EXCEPT !.sigma.needToProcess = FALSE, !.sigma.needToSoftProcess = FALSE]

\* _refresh, lines 685-690, reached unless process threw
RenderUnlessThrown(w, before, after) ==
  IF w.log.threw THEN w ELSE Render(ClearFlags(w), before, after)

\* _refresh with its two tests in the other order
RefreshInternalSoftFirst(w, before, after) ==
  RenderUnlessThrown(
    IF w.sigma.needToSoftProcess THEN Process(w, TRUE)
    ELSE IF w.sigma.needToProcess THEN Process(w, FALSE)
    ELSE w,
    before, after)

\* _refresh
RefreshInternal(w, before, after) ==
  RenderUnlessThrown(
    IF w.sigma.needToProcess THEN Process(w, FALSE)
    ELSE IF w.sigma.needToSoftProcess THEN Process(w, TRUE)
    ELSE w,
    before, after)

\* The dirty flags a frame callback finds
Pending(s) ==
  IF s.needToProcess
  THEN IF s.needToSoftProcess THEN "both" ELSE "full"
  ELSE IF s.needToSoftProcess THEN "soft" ELSE "none"

\* _scheduleRefresh, line 705, reached unless _refresh threw
ForgetFrameUnlessThrown(w) ==
  IF w.log.threw THEN w ELSE [w EXCEPT !.sigma.renderFrame = NoFrame]

\* The callback given to requestFrame: _refresh, then renderFrame = null
FrameCallback(w, before, after) ==
  ForgetFrameUnlessThrown(
    RefreshInternal([w EXCEPT !.log.pending = Pending(w.sigma)], before, after))

\* bindCameraHandlers
BindCameraHandlers(w) == [w EXCEPT !.sigma.cameraHandler = TRUE]

\* bindGraphHandlers: the handlers are registered on this.graph
BindGraphHandlers(w) == [w EXCEPT !.sigma.graphHandlers = TRUE]

\* unbindGraphHandlers that removes no handler
UnbindNothing(w) == w

\* unbindGraphHandlers: the handlers are removed from this.graph
UnbindGraphHandlers(w) == [w EXCEPT !.sigma.graphHandlers = FALSE]

\* setGraph, lines 841-849: the caches and the state tied to the graph are wiped
WipeGraphState(w) ==
  [w EXCEPT !.sigma.nodeDataCache = [k \in {} |-> PlainAttrs],
            !.sigma.edgeDataCache = [e \in {} |-> EdgeAttrs],
            !.sigma.highlightedNodes = {},
            !.sigma.hoveredNode = Null,
            !.sigma.hoveredEdge = Null,
            !.sigma.nodesWithForcedLabels = <<>>]

\* setGraph, line 857: the other graph object becomes this.graph; handlers
\* that are registered on a graph object stay on that object
InstallDetached(w) ==
  [w EXCEPT !.graph = w.detached,
            !.detached = w.graph,
            !.sigma.graphHandlers = w.sigma.detachedHandlers,
            !.sigma.detachedHandlers = w.sigma.graphHandlers]

\* setGraph, lines 863-864, and the constructor: render follows process
\* unless process threw
RenderAfterProcess(w, before, after) ==
  IF w.log.threw THEN w ELSE Render(w, before, after)

\* setGraph(graph) with a graph that is not this.graph
SetGraphToDetached(w, before, after) ==
  RenderAfterProcess(
    Process(
      BindGraphHandlers(InstallDetached(WipeGraphState(UnbindGraphHandlers(w)))),
      FALSE),
    before, after)

\* kill, lines 1324-1327
CancelRenderFrame(w) ==
  IF w.sigma.renderFrame # NoFrame
  THEN [CancelFrame(w, w.sigma.renderFrame) EXCEPT !.sigma.renderFrame = NoFrame]
  ELSE w

\* kill, lines 1304-1321: the listeners and the handlers are released, the
\* caches and the state are emptied
Release(w) ==
  [w EXCEPT !.sigma.released = TRUE,
            !.sigma.cameraHandler = FALSE,
            !.sigma.nodeDataCache = [k \in {} |-> PlainAttrs],
            !.sigma.edgeDataCache = [e \in {} |-> EdgeAttrs],
            !.sigma.nodesWithForcedLabels = <<>>,
            !.sigma.highlightedNodes = {}]

\* kill
KillRenderer(w) == CancelRenderFrame(Release(UnbindGraphHandlers(w)))

---------------------------------------------------------------------------
(* The state after construction *)

NodeSeqs(keys) ==
  {<<>>} \cup {<<k>> : k \in keys}
         \cup {<<p[1], p[2]>> : p \in {q \in keys \X keys : q[1] # q[2]}}

\* The graphs over the given node keys, attribute choices and edge keys
Graphs(keys, choices, edgeKeys) ==
  UNION { { [nodes |-> ns, attrs |-> as, edges |-> es]
            : as \in [SeqToSet(ns) -> choices], es \in SUBSET edgeKeys }
          : ns \in NodeSeqs(keys) }

\* The fields of a Sigma object as its declarations initialise them, and
\* where its handlers are registered: on its graph, on the graph object that is
\* not its graph, on its camera; and whether removeAllListeners has been called
NewSigma ==
  [settings |-> DefaultSettings,
   nodeDataCache |-> [k \in {} |-> PlainAttrs],
   edgeDataCache |-> [e \in {} |-> EdgeAttrs],
   nodesWithForcedLabels |-> <<>>,
   highlightedNodes |-> {},
   hoveredNode |-> Null,
   hoveredEdge |-> Null,
   renderFrame |-> NoFrame,
   needToProcess |-> FALSE,
   needToSoftProcess |-> FALSE,
   graphHandlers |-> FALSE,
   detachedHandlers |-> FALSE,
   cameraHandler |-> FALSE,
   released |-> FALSE,
   nodeExtent |-> [width |-> 1, height |-> 1],
   customBBox |-> Null,
   nodePrograms |-> <<"circle">>,
   allocated |-> <<>>,
   matrix |-> Identity,
   invMatrix |-> Identity]

\* new Sigma(graph, container), lines 272-273: process, then render
FirstRender(w) == IF w.log.threw THEN w ELSE Render(w, "none", "none")

\* new Sigma(g, container), d being the other graph object: the handlers are
\* bound, then handleSettingsUpdate, process, render
ConstructedFrom(s, g, d) ==
  FirstRender(
    Process(
      HandleSettingsUpdate(
        BindGraphHandlers(
          BindCameraHandlers(
            [camera |-> NewCamera, sigma |-> s, graph |-> g, detached |-> d,
             frames |-> <<>>, copied |-> Null, log |-> NewLog("new", Null)]))),
      FALSE))

ConstructedBeside(g, d) == ConstructedFrom(NewSigma, g, d)

\* new Sigma(g, container, settings), the settings registering the node
\* programs of the given types after the default one and configuring the
\* given reducers
ConstructedWith(g, types, nodeReducer, edgeReducer) ==
  ConstructedFrom(
    [NewSigma EXCEPT !.nodePrograms = @ \o types,
                     !.settings.nodeReducer = nodeReducer,
                     !.settings.edgeReducer = edgeReducer],
    g, EmptyGraph)

Constructed(g) == ConstructedBeside(g, EmptyGraph)

\* What the camera state should be: the defaults merged with the valid fields
\* of each setState call made while the camera was enabled
\* merged: the camera state the calls so far should have produced;
\* replaced: setGraph has installed another graph
NewHist == [merged |-> DefaultState, replaced |-> FALSE]

Commit(w) ==
  /\ camera' = w.camera
  /\ sigma' = w.sigma
  /\ graph' = w.graph
  /\ detached' = w.detached
  /\ frames' = w.frames
  /\ copied' = w.copied
  /\ last' = w.log

InitFrom(w) ==
  /\ ~w.log.threw
  /\ camera = w.camera
  /\ sigma = w.sigma
  /\ graph = w.graph
  /\ detached = w.detached
  /\ frames = w.frames
  /\ copied = w.copied
  /\ last = w.log
  /\ hist = NewHist

---------------------------------------------------------------------------
(* Operations on the camera *)

\* The field-wise merge of the valid fields of `state` over `merged`, the
\* ratio passed through getBoundedRatio
Merge(merged, c, state) ==
  [f \in CameraFields |->
     IF f \in DOMAIN state
     THEN IF f = "ratio" THEN GetBoundedRatio(c, state[f]) ELSE state[f]
     ELSE merged[f]]

\* camera.setState(state)
CameraSetState(state) ==
  /\ Commit(CameraUpdated(Begin("setState"), SetState(camera, state)))
  /\ hist' = [hist EXCEPT !.merged =
                IF camera.enabled THEN Merge(@, camera, state) ELSE @]

\* camera.updateState(updater)
CameraUpdateState(u) ==
  /\ Commit(CameraUpdated(Begin("updateState"), UpdateState(camera, u)))
  /\ hist' = [hist EXCEPT !.merged =
                IF camera.enabled
                THEN Merge(@, camera, ApplyUpdater(u, GetState(camera))) ELSE @]

\* camera.enable()
CameraEnable ==
  /\ Commit([Begin("enable") EXCEPT !.camera = Enable(@)])
  /\ UNCHANGED hist

\* camera.disable()
CameraDisable ==
  /\ Commit([Begin("disable") EXCEPT !.camera = Disable(@)])
  /\ UNCHANGED hist

\* setCustomBBox(customBBox)
SetCustomBBox(customBBox) ==
  /\ Commit(ScheduleRefreshInternal(
              [Begin("setCustomBBox") EXCEPT !.sigma.customBBox = customBBox]))
  /\ UNCHANGED hist

\* camera.getBoundedRatio(ratio)
CameraGetBoundedRatio(ratio) ==
  /\ Commit([Begin("getBoundedRatio") EXCEPT
               !.log.arg = Num(ratio),
               !.log.result = Num(GetBoundedRatio(camera, ratio))])
  /\ UNCHANGED hist

\* camera.copy()
CameraCopy ==
  /\ Commit([Begin("copy") EXCEPT !.copied = Num(Copy(camera))])
  /\ UNCHANGED hist

\* setState(state) on the camera that copy() returned: no listener of the
\* renderer's camera is registered on it
CopySetState(state) ==
  /\ IsNumber(copied)
  /\ Commit([Begin("copySetState") EXCEPT
               !.copied = Num(SetState(Val(copied), state).camera),
               !.log.emitted = SetState(Val(copied), state).emitted])
  /\ UNCHANGED hist

---------------------------------------------------------------------------
(* Operations on the renderer *)

\* The setState call that handleSettingsUpdate makes, as the history sees it:
\* the expected state is given back to an enabled camera under its new bounds
MergeReclamp(merged, c) ==
  IF c.enabled THEN Merge(merged, c, merged) ELSE merged

\* setSetting and updateSetting, once the setting is written: lines 945-949
SettingWritten(w) ==
  IF ~ValidateSettings(w.sigma.settings)
  THEN /\ Commit(Throw(w, "settings"))
       /\ UNCHANGED hist
  ELSE /\ Commit(GraphUpdate(HandleSettingsUpdate(w)))
       /\ hist' = [hist EXCEPT !.merged =
                     MergeReclamp(@, BackportRatios(w.camera, w.sigma.settings))]

\* setSetting(key, value)
SetSetting(key, value) ==
  SettingWritten([Begin("setSetting") EXCEPT !.sigma.settings[key] = value])

\* updateSetting(key, updater)
UpdateSetting(key, u) ==
  SettingWritten([Begin("updateSetting") EXCEPT
                    !.sigma.settings[key] = ApplySettingUpdater(u, @)])

\* scheduleRefresh()
ScheduleRefreshCall ==
  /\ Commit(ScheduleRefresh(Begin("scheduleRefresh")))
  /\ UNCHANGED hist

\* refresh()
RefreshCall(before, after) ==
  /\ Commit(RefreshInternal([Begin("refresh") EXCEPT !.sigma.needToProcess = TRUE],
                            before, after))
  /\ UNCHANGED hist

\* The platform runs the callback of the oldest requested frame
FireFrame(before, after) ==
  /\ frames # <<>>
  /\ Commit(FrameCallback([Begin("frame") EXCEPT !.frames = Tail(@)], before, after))
  /\ UNCHANGED hist

---------------------------------------------------------------------------
(* Mutations of the graph, each with the handler it notifies *)

HasNode(k) == k \in SeqToSet(graph.nodes)

\* graph.addNode(k, a): nodeAdded
AddNode(k, a) ==
  /\ ~HasNode(k)
  /\ Commit(Notify([BeginOn("nodeAdded", k) EXCEPT
                      !.graph.nodes = Append(@, k),
                      !.graph.attrs = SetField(@, k, a)], "nodeAdded", k))
  /\ UNCHANGED hist

\* graph.dropNode(k): nodeDropped
DropNode(k) ==
  /\ HasNode(k)
  /\ Commit(Notify([BeginOn("nodeDropped", k) EXCEPT
                      !.graph.nodes = RemoveFromSeq(@, k),
                      !.graph.attrs = DeleteKey(@, k)], "nodeDropped", k))
  /\ UNCHANGED hist

\* graph.replaceNodeAttributes(k, a): nodeAttributesUpdated
SetNodeAttributes(k, a) ==
  /\ HasNode(k)
  /\ Commit(Notify([BeginOn("nodeAttributesUpdated", k) EXCEPT
                      !.graph.attrs = SetField(@, k, a)], "nodeAttributesUpdated", k))
  /\ UNCHANGED hist

\* graph.updateEachNodeAttributes(() => a): eachNodeAttributesUpdated
UpdateEachNodeAttributes(a) ==
  /\ Commit(Notify([Begin("eachNodeAttributesUpdated") EXCEPT
                      !.graph.attrs = [k \in DOMAIN @ |-> a]],
                    "eachNodeAttributesUpdated", ""))
  /\ UNCHANGED hist

\* graph.addEdge: edgeAdded
AddEdge(e) ==
  /\ e \notin graph.edges
  /\ Commit(Notify([BeginOn("edgeAdded", e) EXCEPT !.graph.edges = @ \cup {e}],
                    "edgeAdded", e))
  /\ UNCHANGED hist

\* graph.dropEdge(e): edgeDropped
DropEdge(e) ==
  /\ e \in graph.edges
  /\ Commit(Notify([BeginOn("edgeDropped", e) EXCEPT !.graph.edges = @ \ {e}],
                    "edgeDropped", e))
  /\ UNCHANGED hist

\* graph.setEdgeAttribute(e, ...): edgeAttributesUpdated
SetEdgeAttributes(e) ==
  /\ e \in graph.edges
  /\ Commit(Notify(BeginOn("edgeAttributesUpdated", e), "edgeAttributesUpdated", e))
  /\ UNCHANGED hist

\* graph.updateEachEdgeAttributes: eachEdgeAttributesUpdated
UpdateEachEdgeAttributes ==
  /\ Commit(Notify(Begin("eachEdgeAttributesUpdated"), "eachEdgeAttributesUpdated", ""))
  /\ UNCHANGED hist

\* graph.clearEdges(): edgesCleared
ClearEdges ==
  /\ Commit(Notify([Begin("edgesCleared") EXCEPT !.graph.edges = {}],
                    "edgesCleared", ""))
  /\ UNCHANGED hist

\* graph.clear(): cleared
Clear ==
  /\ Commit(Notify([Begin("cleared") EXCEPT !.graph = EmptyGraph], "cleared", ""))
  /\ UNCHANGED hist

\* setGraph(g): g is this.graph (same) or the other graph object
SetGraph(same, before, after) ==
  /\ Commit(IF same THEN BeginOn("setGraph", "same")
            ELSE SetGraphToDetached(BeginOn("setGraph", "other"), before, after))
  /\ hist' = [hist EXCEPT !.replaced = @ \/ ~same]

\* kill()
Kill ==
  /\ Commit(KillRenderer(Begin("kill")))
  /\ UNCHANGED hist

\* addNode(k, a) on the graph object that is not the renderer's graph
DetachedAddNode(k, a) ==
  /\ k \notin SeqToSet(detached.nodes)
  /\ Commit(NotifyDetached([BeginOn("detachedNodeAdded", k) EXCEPT
                              !.detached.nodes = Append(@, k),
                              !.detached.attrs = SetField(@, k, a)], "nodeAdded", k))
  /\ UNCHANGED hist

\* dropNode(k) on the graph object that is not the renderer's graph
DetachedDropNode(k) ==
  /\ k \in SeqToSet(detached.nodes)
  /\ Commit(NotifyDetached([BeginOn("detachedNodeDropped", k) EXCEPT
                              !.detached.nodes = RemoveFromSeq(@, k),
                              !.detached.attrs = DeleteKey(@, k)], "nodeDropped", k))
  /\ UNCHANGED hist

\* replaceNodeAttributes(k, a) on the graph object that is not the renderer's
DetachedSetNodeAttributes(k, a) ==
  /\ k \in SeqToSet(detached.nodes)
  /\ Commit(NotifyDetached([BeginOn("detachedNodeAttributesUpdated", k) EXCEPT
                              !.detached.attrs = SetField(@, k, a)],
                            "nodeAttributesUpdated", k))
  /\ UNCHANGED hist

\* framedGraphToViewport(p, override)
FramedGraphToViewport(override) ==
  /\ Commit([Begin("framedGraphToViewport") EXCEPT
               !.log.override = Num(override),
               !.log.matrix = Num(ForwardMatrix(World, override))])
  /\ UNCHANGED hist

\* viewportToFramedGraph(p, override)
ViewportToFramedGraph(override) ==
  /\ Commit([Begin("viewportToFramedGraph") EXCEPT
               !.log.override = Num(override),
               !.log.matrix = Num(InverseMatrix(World, override))])
  /\ UNCHANGED hist

\* The pointer collaborator hovers a displayed node or edge
HoverNode(k) ==
  /\ k \in DOMAIN sigma.nodeDataCache
  /\ Commit([BeginOn("hoverNode", k) EXCEPT !.sigma.hoveredNode = Num(k)])
  /\ UNCHANGED hist

HoverEdge(e) ==
  /\ e \in DOMAIN sigma.edgeDataCache
  /\ Commit([BeginOn("hoverEdge", e) EXCEPT !.sigma.hoveredEdge = Num(e)])
  /\ UNCHANGED hist

---------------------------------------------------------------------------
(* Specifications *)

InitCamera == InitFrom(Constructed(EmptyGraph))

NextCamera ==
  \/ \E state \in PartialStates : CameraSetState(state)
  \/ \E u \in StateUpdaters : CameraUpdateState(u)
  \/ CameraEnable
  \/ CameraDisable
  \/ \E key \in CameraRatioKeys, value \in NullableBounds : SetSetting(key, value)
  \/ \E key \in CameraRatioKeys, u \in SettingUpdaters : UpdateSetting(key, u)

\* The camera and the settings that bound it
SpecCamera == InitCamera /\ [][NextCamera]_vars

\* The camera states the renderer's specification moves between
RendererCameraInputs == {[ratio |-> 1], [ratio |-> 2]}

\* The renderer's specification follows one node and one edge
RendererNodeKeys == {"a"}

Init == \E g \in Graphs(RendererNodeKeys, NodeAttrChoices, EdgeKeys) : InitFrom(Constructed(g))

Next ==
  \/ \E state \in RendererCameraInputs : CameraSetState(state)
  \/ ScheduleRefreshCall
  \/ \E before \in ListenerOps, after \in ListenerOps : RefreshCall(before, after)
  \/ \E before \in ListenerOps, after \in ListenerOps : FireFrame(before, after)
  \/ \E k \in RendererNodeKeys, a \in NodeAttrChoices : AddNode(k, a)
  \/ \E k \in RendererNodeKeys : DropNode(k)
  \/ \E k \in RendererNodeKeys, a \in NodeAttrChoices : SetNodeAttributes(k, a)
  \/ \E a \in NodeAttrChoices : UpdateEachNodeAttributes(a)
  \/ \E e \in EdgeKeys : AddEdge(e)
  \/ \E e \in EdgeKeys : DropEdge(e)
  \/ \E e \in EdgeKeys : SetEdgeAttributes(e)
  \/ UpdateEachEdgeAttributes
  \/ ClearEdges
  \/ Clear
  \/ \E k \in RendererNodeKeys : HoverNode(k)
  \/ \E e \in EdgeKeys : HoverEdge(e)

\* The renderer: scheduling, graph synchronisation and the caches
Spec == Init /\ [][Next]_vars

\* The graph's synchronisation with the caches, over two nodes
InitSync == \E g \in Graphs(NodeKeys, NodeAttrChoices, {}) : InitFrom(Constructed(g))

NextSync ==
  \/ \E k \in NodeKeys, a \in NodeAttrChoices : AddNode(k, a)
  \/ \E k \in NodeKeys : DropNode(k)
  \/ \E k \in NodeKeys, a \in NodeAttrChoices : SetNodeAttributes(k, a)
  \/ \E e \in EdgeKeys : AddEdge(e)
  \/ \E e \in EdgeKeys : DropEdge(e)
  \/ Clear
  \/ \E k \in NodeKeys : HoverNode(k)
  \/ \E e \in EdgeKeys : HoverEdge(e)
  \/ FireFrame("none", "none")

SpecSync == InitSync /\ [][NextSync]_vars

InitProcess ==
  \E g \in Graphs(NodeKeys, ProcessAttrChoices, {}) : InitFrom(Constructed(g))

NextProcess ==
  \/ \E k \in NodeKeys, a \in ProcessAttrChoices : AddNode(k, a)
  \/ \E k \in NodeKeys : DropNode(k)
  \/ \E k \in NodeKeys, a \in ProcessAttrChoices : SetNodeAttributes(k, a)
  \/ RefreshCall("none", "none")
  \/ FireFrame("none", "none")

\* Reprocessing graphs that hold nodes without a position or without a program
SpecProcess == InitProcess /\ [][NextProcess]_vars

InitConvert ==
  \E g \in Graphs(RendererNodeKeys, {PlainAttrs}, {}) : InitFrom(Constructed(g))

NextConvert ==
  \/ \E state \in RendererCameraInputs : CameraSetState(state)
  \/ \E k \in RendererNodeKeys, a \in {PlainAttrs, FlaggedAttrs} : AddNode(k, a)
  \/ \E k \in RendererNodeKeys : DropNode(k)
  \/ RefreshCall("none", "none")
  \/ FireFrame("none", "none")
  \/ \E override \in Overrides : FramedGraphToViewport(override)
  \/ \E override \in Overrides : ViewportToFramedGraph(override)

\* The coordinate conversions of a renderer whose camera and graph change
SpecConvert == InitConvert /\ [][NextConvert]_vars

\* A node away from the others, and the custom box given to setCustomBBox
FarAttrs == [x |-> 2, y |-> 0]
CustomBBox == [width |-> 3, height |-> 3]

InitExtent ==
  \E g \in Graphs(NodeKeys, {PlainAttrs, FarAttrs}, {}) : InitFrom(Constructed(g))

NextExtent ==
  \/ \E k \in NodeKeys, a \in {PlainAttrs, FarAttrs} : AddNode(k, a)
  \/ \E k \in NodeKeys : DropNode(k)
  \/ \E k \in NodeKeys, a \in {PlainAttrs, FarAttrs} : SetNodeAttributes(k, a)
  \/ \E customBBox \in {Null, Num(CustomBBox)} : SetCustomBBox(customBBox)
  \/ FireFrame("none", "none")

\* The bounding box of a graph whose nodes move, with and without a custom box
SpecExtent == InitExtent /\ [][NextExtent]_vars

\* A node drawn by the second program, and a node carrying a flag and an
\* attribute of the application's own
ImageAttrs == [x |-> 1, y |-> 0, type |-> "image"]
TaggedAttrs == [x |-> 1, y |-> 0, highlighted |-> TRUE, tag |-> "t"]
ProgramAttrChoices == {PlainAttrs, ImageAttrs, TaggedAttrs}

\* The reducers configured at construction: none, or one of Reducers
ReducerChoices == {Null} \cup {Num(r) : r \in Reducers}

InitPrograms ==
  \E g \in Graphs(NodeKeys, ProgramAttrChoices, EdgeKeys),
     nodeReducer \in ReducerChoices, edgeReducer \in ReducerChoices :
    InitFrom(ConstructedWith(g, <<"image">>, nodeReducer, edgeReducer))

NextPrograms ==
  \/ \E k \in NodeKeys, a \in ProgramAttrChoices : AddNode(k, a)
  \/ \E k \in NodeKeys : DropNode(k)
  \/ \E k \in NodeKeys, a \in ProgramAttrChoices : SetNodeAttributes(k, a)
  \/ \E e \in EdgeKeys : AddEdge(e)
  \/ \E before \in ListenerOps : FireFrame(before, "none")
  \/ RefreshCall("none", "none")

\* A renderer with two node programs and reducers, whose graph changes
SpecPrograms == InitPrograms /\ [][NextPrograms]_vars

\* The listeners of a renderer whose render events mutate the graph
MutatingListenerOps == {"none", "addNode"}

\* The raw attributes given to the node the application adds and updates
LiveAttrChoices == {PlainAttrs, NoXAttrs}

InitLive == InitFrom(Constructed(EmptyGraph))

\* The platform runs the callback of the oldest requested frame
FrameFires ==
  \E before \in MutatingListenerOps, after \in MutatingListenerOps :
    FireFrame(before, after)

NextLive ==
  \/ \E a \in LiveAttrChoices : AddNode("a", a)
  \/ \E k \in NodeKeys : DropNode(k)
  \/ \E a \in LiveAttrChoices : SetNodeAttributes("a", a)
  \/ FrameFires

\* The frames the platform may hold: at most MaxFrames tokens
MaxFrames == 3
FrameQueues == UNION {[1..n -> 1..(MaxFrames + 2)] : n \in 0..MaxFrames}

\* The platform takes the oldest requested frame off its queue, which in this
\* specification only the firing of that frame does
OldestFrameLeaves ==
  /\ frames # <<>>
  /\ frames' \in {f \in FrameQueues : Head(frames) \notin SeqToSet(f)}

\* A renderer whose graph changes, from the application and from the
\* listeners of its render events, every requested frame firing in the end
SpecLive == InitLive /\ [][NextLive]_vars /\ WF_frames(OldestFrameLeaves)

\* The states given to setState where a camera is copied
CopyInputs == {[x |-> 2], [ratio |-> 0], [ratio |-> 2]}

\* The camera's bounds are public fields: any pair of them may have been
\* assigned
InitCopy ==
  \E minRatio \in NullableBounds, maxRatio \in NullableBounds :
    InitFrom([Constructed(EmptyGraph) EXCEPT !.camera.minRatio = minRatio,
                                              !.camera.maxRatio = maxRatio])

NextCopy ==
  \/ \E state \in CopyInputs : CameraSetState(state)
  \/ CameraEnable
  \/ CameraDisable
  \/ \E ratio \in RatioVals \ {NaN} : CameraGetBoundedRatio(ratio)
  \/ CameraCopy
  \/ \E state \in CopyInputs : CopySetState(state)

\* A camera with any bounds, its queries and its copy
SpecCopy == InitCopy /\ [][NextCopy]_vars

\* The nodes and attributes that the graphs of the life cycle hold
LifeNodeKeys == {"a"}
LifeAttrChoices == {PlainAttrs, NoXAttrs}
LifeCameraInput == [ratio |-> 2]

InitLife ==
  \E g \in Graphs(LifeNodeKeys, LifeAttrChoices, {}) :
    \E d \in Graphs(LifeNodeKeys, LifeAttrChoices, {}) :
      InitFrom(ConstructedBeside(g, d))

NextLife ==
  \/ \E same \in BOOLEAN : SetGraph(same, "none", "none")
  \/ Kill
  \/ \E k \in LifeNodeKeys, a \in LifeAttrChoices : AddNode(k, a)
  \/ \E k \in LifeNodeKeys : DropNode(k)
  \/ \E k \in LifeNodeKeys, a \in LifeAttrChoices : SetNodeAttributes(k, a)
  \/ \E k \in LifeNodeKeys, a \in LifeAttrChoices : DetachedAddNode(k, a)
  \/ \E k \in LifeNodeKeys : DetachedDropNode(k)
  \/ \E k \in LifeNodeKeys, a \in LifeAttrChoices : DetachedSetNodeAttributes(k, a)
  \/ CameraSetState(LifeCameraInput)
  \/ RefreshCall("none", "none")
  \/ \E after \in ListenerOps : FireFrame("none", after)
  \/ \E k \in LifeNodeKeys : HoverNode(k)

\* The renderer's life: a graph replaced, the renderer killed
SpecLife == InitLife /\ [][NextLife]_vars

---------------------------------------------------------------------------
(* The camera's claims, checked under SpecCamera *)

\* C1: in every reachable state the camera ratio is at least minRatio whenever
\* minRatio is a number and at most maxRatio whenever maxRatio is a number
C1_RatioWithinBounds ==
  /\ IsNumber(camera.minRatio) =>
       camera.ratio # NaN /\ camera.ratio >= Val(camera.minRatio)
  /\ IsNumber(camera.maxRatio) =>
       camera.ratio # NaN /\ camera.ratio <= Val(camera.maxRatio)

\* C2: on an enabled camera a setState call emits exactly one "updated" event
\* if the state after the call is not the state before it, and none otherwise
C2_EmitsIffChanged ==
  [][ (camera.enabled /\ last'.op = "setState") =>
        last'.emitted = IF GetState(camera') # GetState(camera) THEN 1 ELSE 0 ]_vars

\* C3: each field of getState() is the value of the most recent setState call
\* that gave a number for it, the ratio passed through getBoundedRatio, or the
\* default if no call gave one
C3_StateIsMerge == GetState(camera) = hist.merged

\* A setState call has just changed some fields of an enabled camera whose
\* other fields hold values that earlier calls or the defaults gave them
C3_Witness ==
  /\ last.op = "setState"
  /\ last.emitted = 1
  /\ camera.enabled
  /\ camera.x # DefaultState.x
  /\ camera.y = DefaultState.y
  /\ camera.ratio = MaxRatio
  /\ IsNumber(camera.maxRatio)
  /\ Val(camera.previousState).ratio = camera.ratio

\* C4: while the camera is disabled a setState or updateState call leaves the
\* state and the previous state as they are, emits nothing and throws nothing;
\* enable() changes nothing but the flag, and a call made on an enabled camera
\* is applied
C4_DisabledIgnores ==
  [][ /\ (~camera.enabled /\ last'.op \in {"setState", "updateState"}) =>
           /\ camera' = camera
           /\ last'.emitted = 0
           /\ ~last'.threw
      /\ last'.op = "enable" =>
           camera' = [camera EXCEPT !.enabled = TRUE]
      /\ (camera.enabled /\ last'.op \in {"setState", "updateState"}) =>
           /\ GetState(camera') = hist'.merged
           /\ camera'.previousState = Num(GetState(camera)) ]_vars

\* A call made while the camera was disabled has been ignored, on a camera that
\* an earlier call had moved
C4_Witness ==
  /\ ~camera.enabled
  /\ last.op \in {"setState", "updateState"}
  /\ last.emitted = 0
  /\ GetState(camera) # DefaultState

---------------------------------------------------------------------------
(* The scheduler's claims, checked under Spec *)

\* C5: in every reachable state at most one requested frame is outstanding
C5_AtMostOneFrame == Len(frames) <= 1

\* C6: after a call of scheduleRefresh exactly one frame is requested and
\* outstanding, and the frame that finds a full reprocess asked for and throws
\* nothing runs one reprocess and then one render
C6_OneFramePerBatch ==
  /\ last.op = "scheduleRefresh" => Len(frames) = 1
  /\ (last.op = "frame" /\ last.pending \in {"full", "both"} /\ ~last.threw) =>
       last.calls = <<"process", "render">>

\* C7: a soft notification leaves a pending FULL flag set; a frame that finds
\* FULL pending runs one full reprocess, one that finds only SOFT pending runs
\* one reprocess that keeps the arrays, one that finds neither runs none, and
\* render is entered with both flags clear
C7_FullDominates ==
  /\ [](last.op = "frame" =>
          /\ last.pending \in {"full", "both"} =>
               SelectSeq(last.calls, LAMBDA c : c # "render") = <<"process">>
          /\ last.pending = "soft" =>
               SelectSeq(last.calls, LAMBDA c : c # "render") = <<"softProcess">>
          /\ last.pending = "none" =>
               SelectSeq(last.calls, LAMBDA c : c # "render") = <<>>
          /\ ~last.dirtyAtRender)
  /\ [][ (sigma.needToProcess
           /\ last'.op \in {"nodeAttributesUpdated", "edgeAttributesUpdated"}) =>
         sigma'.needToProcess ]_vars

\* A frame has found both flags pending and run the full reprocess, then render
C7_Witness ==
  /\ last.op = "frame"
  /\ last.pending = "both"
  /\ last.calls = <<"process", "render">>
  /\ ~sigma.needToProcess
  /\ ~sigma.needToSoftProcess

\* C8: a notification of an added entity or of attributes updated on each
\* entity marks FULL, one of a single entity's attributes updated marks SOFT,
\* each leaves a frame requested, and none changes a cache
C8_NotificationSchedules ==
  /\ [](/\ last.op \in {"nodeAdded", "edgeAdded", "eachNodeAttributesUpdated",
                        "eachEdgeAttributesUpdated"} =>
             sigma.needToProcess /\ frames # <<>>
        /\ last.op \in {"nodeAttributesUpdated", "edgeAttributesUpdated"} =>
             sigma.needToSoftProcess /\ frames # <<>>)
  /\ [][ last'.op \in {"nodeAdded", "edgeAdded", "eachNodeAttributesUpdated",
                       "eachEdgeAttributesUpdated", "nodeAttributesUpdated",
                       "edgeAttributesUpdated"} =>
           /\ sigma'.nodeDataCache = sigma.nodeDataCache
           /\ sigma'.edgeDataCache = sigma.edgeDataCache ]_vars

---------------------------------------------------------------------------
(* The claims about dropped entities, checked under SpecSync *)

\* C9: a notification that node k (or edge k) was dropped removes the cache
\* entry of k, makes the hovered reference null iff it was k, leaves every other
\* cache entry as it was, marks FULL and leaves a frame requested
C9_DropSynchronised ==
  [][ /\ last'.op = "nodeDropped" =>
           /\ sigma'.nodeDataCache = DeleteKey(sigma.nodeDataCache, Val(last'.arg))
           /\ sigma'.edgeDataCache = sigma.edgeDataCache
           /\ sigma'.hoveredNode =
                IF sigma.hoveredNode = last'.arg THEN Null ELSE sigma.hoveredNode
           /\ sigma'.needToProcess
           /\ frames' # <<>>
      /\ last'.op = "edgeDropped" =>
           /\ sigma'.edgeDataCache = DeleteKey(sigma.edgeDataCache, Val(last'.arg))
           /\ sigma'.nodeDataCache = sigma.nodeDataCache
           /\ sigma'.hoveredEdge =
                IF sigma.hoveredEdge = last'.arg THEN Null ELSE sigma.hoveredEdge
           /\ sigma'.needToProcess
           /\ frames' # <<>> ]_vars

\* C10: right after a notification that node k was dropped, k is not the
\* hovered node, not a highlighted node and not a node with a forced label
C10_NoReferenceToDropped ==
  last.op = "nodeDropped" =>
    /\ sigma.hoveredNode # last.arg
    /\ Val(last.arg) \notin sigma.highlightedNodes
    /\ Val(last.arg) \notin SeqToSet(sigma.nodesWithForcedLabels)

---------------------------------------------------------------------------
(* The claims about cleared graphs, checked under Spec *)

\* C11: a notification that the edges were cleared empties the edge cache,
\* makes the hovered edge null and marks FULL, the node cache staying as it
\* was; a notification that the graph was cleared also empties the node cache
\* and makes the hovered node null
C11_ClearedSynchronised ==
  [][ /\ last'.op = "edgesCleared" =>
           /\ DOMAIN sigma'.edgeDataCache = {}
           /\ sigma'.hoveredEdge = Null
           /\ sigma'.needToProcess
           /\ sigma'.nodeDataCache = sigma.nodeDataCache
           /\ sigma'.hoveredNode = sigma.hoveredNode
      /\ last'.op = "cleared" =>
           /\ DOMAIN sigma'.nodeDataCache = {}
           /\ sigma'.hoveredNode = Null
           /\ DOMAIN sigma'.edgeDataCache = {}
           /\ sigma'.hoveredEdge = Null
           /\ sigma'.needToProcess ]_vars

\* The edges have just been cleared under a renderer that caches a node and
\* hovers it
C11_Witness ==
  /\ last.op = "edgesCleared"
  /\ DOMAIN sigma.nodeDataCache # {}
  /\ IsNumber(sigma.hoveredNode)
  /\ DOMAIN sigma.edgeDataCache = {}
  /\ sigma.hoveredEdge = Null
  /\ sigma.needToProcess

---------------------------------------------------------------------------
(* The settings' claim, checked under SpecCamera *)

\* C15: when setSetting or updateSetting raises the error of an invalid
\* combination, the value is not applied: the settings, the camera's bounds
\* and the dirty flags are those from before the call, and no frame is
\* requested
C15_InvalidSettingNotApplied ==
  [][ (last'.op \in {"setSetting", "updateSetting"} /\ last'.threw) =>
        /\ sigma'.settings = sigma.settings
        /\ camera' = camera
        /\ sigma'.needToProcess = sigma.needToProcess
        /\ sigma'.needToSoftProcess = sigma.needToSoftProcess
        /\ frames' = frames ]_vars

---------------------------------------------------------------------------
(* The claims on the errors of a reprocess, checked under SpecProcess *)

\* The operation has called process
Reprocessed(l) ==
  \E i \in 1..Len(l.calls) : l.calls[i] \in {"process", "softProcess"}

HasNumericPosition(data) ==
  /\ HasOwn(data, "x") /\ data.x # TextValue
  /\ HasOwn(data, "y") /\ data.y # TextValue

\* C16: a reprocess raises the missing-position error exactly when some node
\* of the graph has no numeric x or no numeric y, the field being absent or
\* holding a value that is not a number
C16_MissingPositionRaised ==
  [][ Reprocessed(last') =>
        ( (last'.threw /\ last'.error = "position")
          <=> \E k \in SeqToSet(graph'.nodes) : ~HasNumericPosition(graph'.attrs[k]) )
    ]_vars

\* C17: when a reprocess aborts with the missing-position error, the node
\* cache and the node extent are those that held before the reprocess began
C17_AbortedReprocessHidden ==
  [][ (Reprocessed(last') /\ last'.threw /\ last'.error = "position") =>
        /\ sigma'.nodeDataCache = sigma.nodeDataCache
        /\ sigma'.nodeExtent = sigma.nodeExtent ]_vars

\* C18: when the graph holds a node whose resolved type has no registered
\* program, a reprocess raises an error; a reprocess that returns normally
\* has found a program of its own type for every node
C18_UnknownTypeRaises ==
  [][ Reprocessed(last') =>
        /\ (\E k \in SeqToSet(graph'.nodes) :
              ApplyNodeDefaults(graph'.attrs[k]).type \notin NodePrograms)
             => last'.threw
        /\ ~last'.threw =>
             \A k \in SeqToSet(graph'.nodes) :
               sigma'.nodeDataCache[k].type \in NodePrograms ]_vars

\* A frame's reprocess has just raised the error of the missing program, for
\* a graph whose nodes all have a position
C18_Witness ==
  /\ last.op = "frame"
  /\ last.threw
  /\ last.error = "program"
  /\ \E k \in SeqToSet(graph.nodes) : graph.attrs[k] = SquareAttrs
  /\ \A k \in SeqToSet(graph.nodes) : HasNumericPosition(graph.attrs[k])

---------------------------------------------------------------------------
(* The claims on the coordinate conversions, checked under SpecConvert *)

\* C19: a conversion given an override without a matrix uses the matrix
\* derived from each value the override supplies and from the renderer's
\* current value for each value it does not supply
C19_OverrideHonoured ==
  [][ /\ last'.op = "framedGraphToViewport" =>
           Val(last'.matrix) =
             MatrixFromCamera(
               IF HasOwn(Val(last'.override), "cameraState")
                 THEN Val(last'.override).cameraState ELSE GetState(camera),
               IF HasOwn(Val(last'.override), "viewportDimensions")
                 THEN Val(last'.override).viewportDimensions ELSE GetDimensions,
               IF HasOwn(Val(last'.override), "graphDimensions")
                 THEN Val(last'.override).graphDimensions
                 ELSE GetGraphDimensions(sigma),
               IF HasOwn(Val(last'.override), "padding")
                 THEN Val(last'.override).padding ELSE GetStagePadding(sigma),
               FALSE)
      /\ last'.op = "viewportToFramedGraph" =>
           Val(last'.matrix) =
             MatrixFromCamera(
               IF HasOwn(Val(last'.override), "cameraState")
                 THEN Val(last'.override).cameraState ELSE GetState(camera),
               IF HasOwn(Val(last'.override), "viewportDimensions")
                 THEN Val(last'.override).viewportDimensions ELSE GetDimensions,
               IF HasOwn(Val(last'.override), "graphDimensions")
                 THEN Val(last'.override).graphDimensions
                 ELSE GetGraphDimensions(sigma),
               IF HasOwn(Val(last'.override), "padding")
                 THEN Val(last'.override).padding ELSE GetStagePadding(sigma),
               TRUE) ]_vars

\* The matrices of the two conversions undo each other: both are the
\* identity, or both are derived from the same camera state, viewport
\* dimensions, graph dimensions and padding, one forward and one inverse
Inverses(forward, inverse) ==
  \/ forward = Identity /\ inverse = Identity
  \/ /\ forward # Identity
     /\ inverse # Identity
     /\ ~forward.inverse
     /\ inverse.inverse
     /\ [forward EXCEPT !.inverse = TRUE] = inverse

\* C20: in every reachable state the conversions called without overrides
\* use matrices that undo each other, so that
\* viewportToFramedGraph(framedGraphToViewport(p)) is p
C20_RoundTrip == Inverses(ForwardMatrix(World, <<>>), InverseMatrix(World, <<>>))

---------------------------------------------------------------------------
(* The renderer's life, checked under SpecLife *)

DetachedOps ==
  {"detachedNodeAdded", "detachedNodeDropped", "detachedNodeAttributesUpdated"}

\* setGraph(g) with g another graph than this.graph has just returned normally
ReplacedNormally(l) == l.op = "setGraph" /\ l.arg = Num("other") /\ ~l.threw

C13_SyncRenderAbsorbs ==
  [][ ( /\ last'.op = "refresh" \/ ReplacedNormally(last')
        /\ ~last'.threw
        /\ last'.requested = 0 ) =>
           /\ frames' = <<>>
           /\ ~sigma'.needToProcess
           /\ ~sigma'.needToSoftProcess ]_vars

\* C14: when kill() returns no frame is pending and both caches are empty;
\* the graph mutation or camera update that follows schedules no frame and
\* writes no cache; a second kill() changes nothing and raises no error
C14_KillTearsDown ==
  [][ /\ last'.op = "kill" =>
           /\ frames' = <<>>
           /\ DOMAIN sigma'.nodeDataCache = {}
           /\ DOMAIN sigma'.edgeDataCache = {}
           /\ ~last'.threw
      /\ (last.op = "kill" /\ last'.op = "kill") =>
           sigma' = sigma /\ frames' = frames
      /\ ( /\ last.op = "kill"
           /\ last'.op \in {"nodeAdded", "nodeDropped", "nodeAttributesUpdated",
                             "setState"} ) =>
           /\ frames' = frames
           /\ sigma'.nodeDataCache = sigma.nodeDataCache
           /\ sigma'.edgeDataCache = sigma.edgeDataCache ]_vars

---------------------------------------------------------------------------
(* The camera's previous state and ratio, checked under SpecCamera *)

\* C22: getPreviousState() is the state that held before the most recent
\* setState call that changed the state: a call of setState or updateState
\* that changes the state records the state it found, and a call that changes
\* nothing leaves the previous state as it was
C22_PreviousIsBeforeLastChange ==
  [][ last'.op \in {"setState", "updateState"} =>
        IF GetState(camera') # GetState(camera)
        THEN GetPreviousState(camera') = Num(GetState(camera))
        ELSE GetPreviousState(camera') = GetPreviousState(camera) ]_vars

\* C23: getPreviousState() is null on a camera whose state has not changed
\* since it was constructed, and is a state once a change was accepted
C23_NullBeforeChange ==
  /\ last.op = "new" => GetPreviousState(camera) = Null
  /\ GetState(camera) # DefaultState => GetPreviousState(camera) # Null

\* C24: the camera's ratio is strictly greater than 0 in every reachable
\* state
C24_RatioPositive == camera.ratio # NaN => camera.ratio > 0

---------------------------------------------------------------------------
(* The camera's bounds and its copy, checked under SpecCopy *)

\* max(r, minRatio) where minRatio is a number
Lowered(c, r) == IF IsNumber(c.minRatio) /\ r < Val(c.minRatio) THEN Val(c.minRatio) ELSE r

\* min(v, maxRatio) where maxRatio is a number
Raised(c, v) == IF IsNumber(c.maxRatio) /\ v > Val(c.maxRatio) THEN Val(c.maxRatio) ELSE v

C26_CopyIndependent ==
  [][ /\ last'.op = "copy" =>
           /\ IsNumber(copied')
           /\ GetState(Val(copied')) = GetState(camera)
           /\ camera' = camera
      /\ last'.op = "copySetState" =>
           /\ camera' = camera
           /\ sigma' = sigma
           /\ frames' = frames
      /\ last'.op \in {"setState", "updateState"} => copied' = copied ]_vars

\* A setState has just changed the copy of a camera that is disabled and
\* bounded, and the two cameras now differ
C26_Witness ==
  /\ last.op = "copySetState"
  /\ last.emitted = 1
  /\ ~camera.enabled
  /\ IsNumber(camera.minRatio)
  /\ GetState(camera) # DefaultState
  /\ GetState(Val(copied)) # GetState(camera)

---------------------------------------------------------------------------
(* The claims on the bounding box, checked under SpecExtent *)

\* The frame callback has just rendered
FrameRendered(l) ==
  /\ l.op = "frame"
  /\ ~l.threw
  /\ \E i \in 1..Len(l.calls) : l.calls[i] = "render"

\* C21: once setCustomBBox(null) has undone a custom box and a frame has
\* rendered, the matrices are those derived from the node extent and the
\* cached positions are normalized against the node extent, as if no custom
\* box had ever been set
C21_CustomBBoxUndone ==
  (sigma.customBBox = Null /\ FrameRendered(last) /\ graph.nodes # <<>>) =>
    /\ sigma.matrix = MatrixFromCamera(GetState(camera), GetDimensions,
                                       sigma.nodeExtent, GetStagePadding(sigma), FALSE)
    /\ sigma.invMatrix = MatrixFromCamera(GetState(camera), GetDimensions,
                                          sigma.nodeExtent, GetStagePadding(sigma), TRUE)
    /\ \A k \in DOMAIN sigma.nodeDataCache :
         sigma.nodeDataCache[k].normalizedBy = Null

\* C30: a soft reprocess leaves the node extent as it was
C30_SoftKeepsExtent ==
  [][ ( /\ last'.op = "frame"
        /\ \E i \in 1..Len(last'.calls) : last'.calls[i] = "softProcess" ) =>
          sigma'.nodeExtent = sigma.nodeExtent ]_vars

---------------------------------------------------------------------------
(* The claims on reducers, node programs and the render pass, checked under
   SpecPrograms *)

\* The operation has just reprocessed the graph without throwing
ReprocessDone(l) ==
  /\ ~l.threw
  /\ \E i \in 1..Len(l.calls) : l.calls[i] \in {"process", "softProcess"}

\* The values applyNodeDefaults and applyEdgeDefaults give to missing fields
NodeDefaults ==
  [color |-> "#999", label |-> Null, size |-> DefaultNodeSize, hidden |-> FALSE,
   highlighted |-> FALSE, forceLabel |-> FALSE, type |-> "circle",
   zIndex |-> DefaultZIndex]
EdgeDefaults ==
  [color |-> "#ccc", label |-> "", size |-> DefaultEdgeSize, hidden |-> FALSE,
   forceLabel |-> FALSE, type |-> "line", zIndex |-> DefaultZIndex]

\* The fields of the object each reducer returns, given the raw attributes
ReturnedFields(reducer, raw) ==
  IF reducer = "positionOnly" THEN DOMAIN raw \cap {"x", "y"}
  ELSE DOMAIN raw \cup {"highlighted"}

\* The cached data hold the returned fields and the defaults, nothing else;
\* a returned raw attribute keeps its value, a missing field has its default
\* and a raw attribute that was not returned shows neither itself nor its
\* value
ReducedCache(cached, reducer, raw, defaults) ==
  /\ DOMAIN cached \ {"normalizedBy"} = ReturnedFields(reducer, raw) \cup DOMAIN defaults
  /\ \A f \in (ReturnedFields(reducer, raw) \cap DOMAIN raw) \ {"highlighted"} :
       cached[f] = raw[f]
  /\ \A f \in DOMAIN defaults \ ReturnedFields(reducer, raw) :
       cached[f] = defaults[f]
  /\ \A f \in DOMAIN raw \ ReturnedFields(reducer, raw) :
       f \in DOMAIN cached => (f \in DOMAIN defaults /\ cached[f] = defaults[f])

\* C27: with a reducer configured, after a reprocess the cached data of each
\* node and of each edge are exactly the fields the reducer returned plus the
\* defaults of the fields it left out; a raw attribute the reducer did not
\* return is not in the cache
C27_ReducerAuthoritative ==
  ReprocessDone(last) =>
    /\ IsNumber(sigma.settings.nodeReducer) =>
         \A k \in SeqToSet(graph.nodes) :
           ReducedCache(sigma.nodeDataCache[k], Val(sigma.settings.nodeReducer),
                        graph.attrs[k], NodeDefaults)
    /\ IsNumber(sigma.settings.edgeReducer) =>
         \A e \in graph.edges :
           ReducedCache(sigma.edgeDataCache[e], Val(sigma.settings.edgeReducer),
                        EdgeAttrs, EdgeDefaults)

\* A frame's reprocess has just cached, through reducers that return the
\* position only, a node whose raw attributes hold a flag and an attribute of
\* the application's own, and an edge whose raw attributes hold a size
C27_Witness ==
  /\ last.op = "frame"
  /\ ReprocessDone(last)
  /\ sigma.settings.nodeReducer = Num("positionOnly")
  /\ sigma.settings.edgeReducer = Num("positionOnly")
  /\ graph.edges # {}
  /\ \E k \in SeqToSet(graph.nodes) :
       /\ graph.attrs[k] = TaggedAttrs
       /\ ~sigma.nodeDataCache[k].highlighted

\* The calls of one kind made on the program of one type, in their order
Calls(effects, call, type) ==
  SelectSeq(effects, LAMBDA e : e.call = call /\ e.type = type)

\* The number of nodes whose display data have the type
NodesOfType(type) ==
  Cardinality({k \in SeqToSet(graph.nodes) : sigma.nodeDataCache[k].type = type})

\* allocate(n) was called once on the program of the type, before any call
\* of process
AllocatedFirst(effects, type, n) ==
  /\ Len(Calls(effects, "allocate", type)) = 1
  /\ \E j \in 1..Len(effects) :
       /\ effects[j] = [call |-> "allocate", type |-> type, index |-> n]
       /\ \A i \in 1..Len(effects) : effects[i].call = "process" => j < i

\* C28: in a reprocess that completes, the indices given to the process of
\* each registered program are 0, 1, ..., n-1 in the order of the calls, n
\* being the number of nodes of its type; a reprocess that is not soft calls
\* allocate(n) on every registered program before any process, a soft one
\* never calls allocate
C28_ProgramCalls ==
  ReprocessDone(last) =>
    \A t \in SeqToSet(sigma.nodePrograms) :
      /\ Len(Calls(last.effects, "process", t)) = NodesOfType(t)
      /\ \A i \in 1..Len(Calls(last.effects, "process", t)) :
           Calls(last.effects, "process", t)[i].index = i - 1
      /\ (\E i \in 1..Len(last.calls) : last.calls[i] = "process") =>
           AllocatedFirst(last.effects, t, NodesOfType(t))
      /\ (\E i \in 1..Len(last.calls) : last.calls[i] = "softProcess") =>
           Calls(last.effects, "allocate", t) = <<>>

\* A frame's reprocess that is not soft has just given the index 1 to a
\* program, after allocate(0) on the program that has no node
C28_Witness ==
  /\ last.op = "frame"
  /\ ReprocessDone(last)
  /\ \E i \in 1..Len(last.calls) : last.calls[i] = "process"
  /\ \E i \in 1..Len(last.effects) :
       last.effects[i].call = "process" /\ last.effects[i].index = 1
  /\ \E i \in 1..Len(last.effects) :
       last.effects[i].call = "allocate" /\ last.effects[i].index = 0

\* The operation has just rendered
Rendered(l) ==
  /\ ~l.threw
  /\ \E i \in 1..Len(l.calls) : l.calls[i] = "render"

DrawCalls == {"bind", "bufferData", "render"}

\* What a render pass did: the events, the frame cancelled, the draw calls
RenderEffects(effects) ==
  SelectSeq(effects, LAMBDA e : e.call \in {"emit", "cancelFrame"} \cup DrawCalls)

\* bind, bufferData, render on each program in turn
RECURSIVE ExpectedDraws(_)
ExpectedDraws(types) ==
  IF types = <<>> THEN <<>>
  ELSE << [call |-> "bind", type |-> Head(types), index |-> 0],
          [call |-> "bufferData", type |-> Head(types), index |-> 0],
          [call |-> "render", type |-> Head(types), index |-> 0] >>
       \o ExpectedDraws(Tail(types))

---------------------------------------------------------------------------
(* The claims on the frame token, the normalization and the node cache *)

\* C32: between operations the stored frame token is null unless it names a
\* requested frame that has neither fired nor been cancelled, so that a
\* _scheduleRefresh made while no frame is outstanding requests one
C32_TokenNamesOutstandingFrame ==
  sigma.renderFrame # NoFrame => sigma.renderFrame \in SeqToSet(frames)

\* C33: when a render pass has drawn a graph with nodes, the box every cached
\* position was normalized against is the box the graph dimensions of the
\* matrices are taken from: the custom box if one is set, the node extent
\* otherwise
C33_NormalizedAsRendered ==
  (Rendered(last) /\ graph.nodes # <<>>) =>
    \A k \in DOMAIN sigma.nodeDataCache :
      sigma.nodeDataCache[k].normalizedBy = sigma.customBBox

\* C35: between operations every key of the node cache is a node of the
\* graph, and after an operation that completed a reprocess the keys of the
\* cache are the nodes of the graph
C35_CacheWithinGraph ==
  /\ DOMAIN sigma.nodeDataCache \subseteq SeqToSet(graph.nodes)
  /\ ReprocessDone(last) => DOMAIN sigma.nodeDataCache = SeqToSet(graph.nodes)

\* C34: every index given to a program's process, in a soft reprocess as in
\* a full one, is below the number of entities of that program's most recent
\* allocate
C34_IndexWithinAllocation ==
  \A i \in 1..Len(last.effects) :
    last.effects[i].call = "process" =>
      last.effects[i].index < CountOf(sigma.allocated, last.effects[i].type)

---------------------------------------------------------------------------
(* The claim on the reprocess that follows a notification, checked under
   SpecLive *)

\* Every node of the graph has a position, so that a reprocess can complete
Positioned == \A k \in SeqToSet(graph.nodes) : ~NodeDefaultsThrow(graph.attrs[k])

\* C31: every requested frame firing in the end, a graph notification is
\* followed by a completed reprocess of at least the severity it reports:
\* once a graph whose nodes all have a position is owed a reprocess, the
\* reprocess completes (nothing is owed any more, or the bit has turned: an
\* operation completed the reprocess and delivered a new notification after
\* it) or the graph loses a position
C31_NotificationReprocessed ==
  \A t \in {0, 1} :
    (last.owed # "none" /\ last.turn = t /\ Positioned)
      ~> (last.owed = "none" \/ last.turn # t \/ ~Positioned)

=============================================================================
